---- MODULE Spec2Model ----
(***************************************************************************)
(* Model of src/app.py: the search-term report analyzer.                   *)
(*                                                                         *)
(* Text is a sequence of one-character strings, so that upper(), lower(),  *)
(* split(), join() and the substring test are computed character by        *)
(* character as Python computes them.  Money and counts are integers.      *)
(* A value rounded to one decimal (ACOS, ROAS) is kept in tenths: 12.5 is  *)
(* 125.  A missing text cell is the one-element sequence NaN; a number    *)
(* is a record that says whether it is finite, inf or nan.                 *)
(***************************************************************************)
EXTENDS Integers, Sequences, FiniteSets, TLC

VARIABLES
    \* generate_ngrams called on its own
    ng_text, ng_n, ng_out, ng_called,
    \* normalize_match_type / to_numeric called on single cells
    mt_cell, mt_out, mt_called, num_cell, num_out, num_called,
    \* one run of main()
    pc, report, df, acos_limit, waste_threshold, df_agg,
    top_sales, top_acos, n_val, ng_df, waste, shown, error

ngVars == <<ng_text, ng_n, ng_out, ng_called>>
cellVars == <<mt_cell, mt_out, mt_called, num_cell, num_out, num_called>>
mainVars == <<pc, report, df, acos_limit, waste_threshold, df_agg,
              top_sales, top_acos, n_val, ng_df, waste, shown, error>>
vars == <<ngVars, cellVars, mainVars>>

----------------------------------------------------------------------------
\* Bounds of the checked inputs

MaxTextLen == 7
MaxFragments == 2
MaxRows == 2
ExtraRows == 2

----------------------------------------------------------------------------
\* Characters and strings

\* a missing cell of a text column (never equal to a sequence of characters)
NaN == <<"NaN">>
isna(val) == val = NaN

LowerChars == <<"a","b","c","d","e","f","g","h","i","j","k","l","m",
                "n","o","p","q","r","s","t","u","v","w","x","y","z">>
UpperChars == <<"A","B","C","D","E","F","G","H","I","J","K","L","M",
                "N","O","P","Q","R","S","T","U","V","W","X","Y","Z">>

LowerChar(c) ==
    IF \E i \in 1..26 : UpperChars[i] = c
    THEN LowerChars[CHOOSE i \in 1..26 : UpperChars[i] = c]
    ELSE c

UpperChar(c) ==
    IF \E i \in 1..26 : LowerChars[i] = c
    THEN UpperChars[CHOOSE i \in 1..26 : LowerChars[i] = c]
    ELSE c

lower(s) == [i \in 1..Len(s) |-> LowerChar(s[i])]
upper(s) == [i \in 1..Len(s) |-> UpperChar(s[i])]

IsSpace(c) == c \in {" ", "\t", "\n"}

\* needle in hay
Contains(needle, hay) ==
    \E p \in 1..(Len(hay) - Len(needle) + 1) :
        SubSeq(hay, p, p + Len(needle) - 1) = needle

RECURSIVE lstrip(_)
lstrip(s) ==
    IF s = <<>> THEN <<>>
    ELSE IF IsSpace(Head(s)) THEN lstrip(Tail(s)) ELSE s

RECURSIVE rstrip(_)
rstrip(s) ==
    IF s = <<>> THEN <<>>
    ELSE IF IsSpace(s[Len(s)]) THEN rstrip(SubSeq(s, 1, Len(s) - 1)) ELSE s

strip(s) == rstrip(lstrip(s))

RECURSIVE TakeWord(_)
TakeWord(s) ==
    IF s = <<>> \/ IsSpace(Head(s)) THEN <<>>
    ELSE <<Head(s)>> \o TakeWord(Tail(s))

\* str.split() with no argument: runs of whitespace separate, none are kept
RECURSIVE split(_)
split(s) ==
    LET r == lstrip(s) IN
    IF r = <<>> THEN <<>>
    ELSE LET w == TakeWord(r) IN
         <<w>> \o split(SubSeq(r, Len(w) + 1, Len(r)))

\* ' '.join(words)
RECURSIVE join(_)
join(words) ==
    IF words = <<>> THEN <<>>
    ELSE IF Len(words) = 1 THEN words[1]
    ELSE words[1] \o <<" ">> \o join(Tail(words))

Max(a, b) == IF a >= b THEN a ELSE b
Min(a, b) == IF a <= b THEN a ELSE b

\* all sequences over S of length lo..hi
SeqsOf(S, lo, hi) == UNION {[1..k -> S] : k \in lo..hi}

RECURSIVE Concat(_)
Concat(ss) == IF ss = <<>> THEN <<>> ELSE Head(ss) \o Concat(Tail(ss))

----------------------------------------------------------------------------
\* Helper functions of the program

EXACT == <<"E","X","A","C","T">>
PHRASE == <<"P","H","R","A","S","E">>
BROAD == <<"B","R","O","A","D">>
AUTO_OTHER == <<"A","U","T","O","/","O","T","H","E","R">>
UNKNOWN == <<"U","N","K","N","O","W","N">>

normalize_match_type_swapped(val) ==
    IF isna(val) THEN UNKNOWN
    ELSE LET v == upper(val) IN
         IF Contains(PHRASE, v) THEN PHRASE
         ELSE IF Contains(EXACT, v) THEN EXACT
         ELSE IF Contains(BROAD, v) THEN BROAD
         ELSE AUTO_OTHER

normalize_match_type(val) ==
    IF isna(val) THEN UNKNOWN
    ELSE LET v == upper(val) IN
         IF Contains(EXACT, v) THEN EXACT
         ELSE IF Contains(PHRASE, v) THEN PHRASE
         ELSE IF Contains(BROAD, v) THEN BROAD
         ELSE AUTO_OTHER

generate_ngrams_short(text, n) ==
    LET words == split(lower(text)) IN
    IF Len(words) < n THEN <<>>
    ELSE [i \in 1..(Len(words) - n) |-> join(SubSeq(words, i, i + n - 1))]

generate_ngrams(text, n) ==
    LET words == split(lower(text)) IN
    IF Len(words) < n THEN <<>>
    ELSE [i \in 1..(Len(words) - n + 1) |-> join(SubSeq(words, i, i + n - 1))]

----------------------------------------------------------------------------
\* Numbers: a cell of a metric column, and the result of float arithmetic

Num(n) == [kind |-> "num", val |-> n, text |-> <<>>]
FNaN == [kind |-> "nan", val |-> 0, text |-> <<>>]
FInf == [kind |-> "inf", val |-> 0, text |-> <<>>]
Text(s) == [kind |-> "text", val |-> 0, text |-> s]

Digits == <<"0","1","2","3","4","5","6","7","8","9">>
IsDigit(c) == \E d \in 1..10 : Digits[d] = c
DigitVal(c) == (CHOOSE d \in 1..10 : Digits[d] = c) - 1

RECURSIVE ParseDigits(_)
ParseDigits(s) ==
    IF s = <<>> THEN 0
    ELSE 10 * ParseDigits(SubSeq(s, 1, Len(s) - 1)) + DigitVal(s[Len(s)])

\* pd.to_numeric(cell, errors='coerce'): a number stays, text is parsed,
\* anything that does not parse becomes NaN
to_numeric(c) ==
    IF c.kind = "text"
    THEN IF c.text # <<>> /\ \A i \in 1..Len(c.text) : IsDigit(c.text[i])
         THEN Num(ParseDigits(c.text)) ELSE FNaN
    ELSE c

fillna0(c) == IF c.kind = "nan" THEN Num(0) ELSE c

\* pd.to_numeric(..., errors='coerce').fillna(0)
coerce(c) == fillna0(to_numeric(c))

----------------------------------------------------------------------------
\* generate_ngrams on its own

TextChars == {"a", "B", " ", "\t"}
Texts == SeqsOf(TextChars, 0, MaxTextLen)
GramSizes == {1, 2, 3, 4}

CallGenerateNgrams ==
    /\ ~ng_called
    /\ \E n \in GramSizes :
          /\ ng_n' = n
          /\ ng_out' = generate_ngrams(ng_text, n)
    /\ ng_called' = TRUE
    /\ UNCHANGED <<ng_text, cellVars, mainVars>>

----------------------------------------------------------------------------
\* normalize_match_type and the numeric coercion on single cells

MatchFragments ==
    { <<"e","x","a","c","t">>, <<"E","x","a","c","t">>, EXACT,
      <<"p","h","r","a","s","e">>, PHRASE, <<"b","r","o","a","d">>, BROAD,
      <<"e","x","a","c">>, <<"t">>, <<" ">>, <<"-">>,
      <<"a","u","t","o">>, AUTO_OTHER, UNKNOWN }
MatchCells ==
    {NaN} \cup {Concat(fs) : fs \in SeqsOf(MatchFragments, 1, MaxFragments)}

MetricCells ==
    { Num(0), Num(49), FNaN, Text(<<"5","0">>), Text(<<"n","/","a">>) }

CallNormalizeMatchType ==
    /\ ~mt_called
    /\ mt_out' = normalize_match_type(mt_cell)
    /\ mt_called' = TRUE
    /\ UNCHANGED <<mt_cell, num_cell, num_out, num_called, ngVars, mainVars>>

CallCoerce ==
    /\ ~num_called
    /\ num_out' = coerce(num_cell)
    /\ num_called' = TRUE
    /\ UNCHANGED <<num_cell, mt_cell, mt_out, mt_called, ngVars, mainVars>>

----------------------------------------------------------------------------
\* Data frames.  A frame is [columns, rows]: the labels in order and, for
\* each row, its cells in the same order.  Text cells are strings or NaN,
\* metric cells are numbers or unparsed text.

\* code-point order of the characters that occur in grouping keys
CharOrder ==
    <<" ", "-", "/">> \o Digits \o UpperChars \o LowerChars
CharCode(c) == CHOOSE i \in 1..Len(CharOrder) : CharOrder[i] = c

RECURSIVE StrLess(_, _)
StrLess(a, b) ==
    IF b = <<>> THEN FALSE
    ELSE IF a = <<>> THEN TRUE
    ELSE IF Head(a) = Head(b) THEN StrLess(Tail(a), Tail(b))
    ELSE CharCode(Head(a)) < CharCode(Head(b))

RECURSIVE KeyLess(_, _)
KeyLess(k1, k2) ==
    IF k1 = <<>> THEN FALSE
    ELSE IF Head(k1) = Head(k2) THEN KeyLess(Tail(k1), Tail(k2))
    ELSE StrLess(Head(k1), Head(k2))

RECURSIVE SortedKeys(_)
SortedKeys(S) ==
    IF S = {} THEN <<>>
    ELSE LET m == CHOOSE k \in S : \A o \in S \ {k} : KeyLess(k, o)
         IN <<m>> \o SortedKeys(S \ {m})

RECURSIVE SortedStrs(_)
SortedStrs(S) ==
    IF S = {} THEN <<>>
    ELSE LET m == CHOOSE k \in S : \A o \in S \ {k} : StrLess(k, o)
         IN <<m>> \o SortedStrs(S \ {m})

RECURSIVE SumOver(_, _)
SumOver(f, S) ==
    IF S = {} THEN 0
    ELSE LET x == CHOOSE y \in S : TRUE IN f[x] + SumOver(f, S \ {x})

\* next((c for c in columns if some pattern in c), default)
FirstMatch(columns, patterns, default) ==
    LET hits == {i \in 1..Len(columns) :
                    \E pat \in patterns : Contains(pat, columns[i])}
    IN IF hits = {} THEN default
       ELSE columns[CHOOSE i \in hits : \A j \in hits : i <= j]

\* position of the column with this label, 0 when df[label] raises KeyError
ColIndex(columns, label) ==
    LET hits == {i \in 1..Len(columns) : columns[i] = label}
    IN IF hits = {} THEN 0 ELSE CHOOSE i \in hits : \A j \in hits : i <= j

L_CustomerSearchTerm == <<"C","u","s","t","o","m","e","r"," ","S","e","a","r","c","h"," ","T","e","r","m">>
L_MatchedProduct == <<"M","a","t","c","h","e","d"," ","p","r","o","d","u","c","t">>
L_SearchTerm == <<"S","e","a","r","c","h"," ","T","e","r","m">>
L_CampaignName == <<"C","a","m","p","a","i","g","n"," ","N","a","m","e">>
L_Campaign == <<"C","a","m","p","a","i","g","n">>
L_AdGroupName == <<"A","d"," ","G","r","o","u","p"," ","N","a","m","e">>
L_AdGroup == <<"A","d"," ","G","r","o","u","p">>
L_MatchType == <<"M","a","t","c","h"," ","T","y","p","e">>
L_Spend == <<"S","p","e","n","d">>
L_Sales == <<"S","a","l","e","s">>
L_Orders == <<"O","r","d","e","r","s">>
L_Clicks == <<"C","l","i","c","k","s">>
L_norm_match == <<"n","o","r","m","_","m","a","t","c","h">>

col_map(columns) ==
    [ term   |-> FirstMatch(columns, {L_CustomerSearchTerm, L_MatchedProduct}, L_SearchTerm),
      camp   |-> FirstMatch(columns, {L_CampaignName}, L_Campaign),
      adg    |-> FirstMatch(columns, {L_AdGroupName}, L_AdGroup),
      match  |-> FirstMatch(columns, {L_MatchType}, L_MatchType),
      spend  |-> FirstMatch(columns, {L_Spend}, L_Spend),
      sales  |-> FirstMatch(columns, {L_Sales}, L_Sales),
      orders |-> FirstMatch(columns, {L_Orders}, L_Orders),
      clicks |-> FirstMatch(columns, {L_Clicks}, L_Clicks) ]

\* position of the column each canonical field was mapped to (0: no column)
col_idx(columns) ==
    LET m == col_map(columns) IN
    [k \in DOMAIN m |-> ColIndex(columns, m[k])]

MetricKeys == {"spend", "sales", "orders", "clicks"}

----------------------------------------------------------------------------
\* Lines 70-83: column mapping, numeric coercion, norm_match

NormalizeRaises(d) ==
    LET ix == col_idx(d.columns) IN
    \E k \in MetricKeys \cup {"match"} : ix[k] = 0

NormalizeFrame(d) ==
    LET ix == col_idx(d.columns)
        metricCols == {ix[k] : k \in MetricKeys}
    IN [ columns |-> d.columns \o <<L_norm_match>>,
         rows |-> [r \in 1..Len(d.rows) |->
                     [c \in 1..Len(d.columns) |->
                         IF c \in metricCols THEN coerce(d.rows[r][c])
                         ELSE d.rows[r][c]]
                     \o <<normalize_match_type(d.rows[r][ix.match])>>] ]

----------------------------------------------------------------------------
\* Lines 86-94: groupby(...).agg(sum).rename(...), ACOS, ROAS

\* n / d rounded half-to-even, n >= 0, d > 0
RoundHalfEven(n, d) ==
    LET q == n \div d
        r == n % d
    IN IF 2 * r < d THEN q
       ELSE IF 2 * r > d THEN q + 1
       ELSE IF q % 2 = 0 THEN q ELSE q + 1

\* float division a / b, times scale/10, in tenths after .round(1)
fdiv(a, b, scale) ==
    IF b = 0 THEN (IF a = 0 THEN FNaN ELSE FInf)
    ELSE Num(RoundHalfEven(a * scale, b))

\* (Spend / Sales * 100).fillna(0).round(1)
acos_of(spend, sales) == fillna0(fdiv(spend, sales, 1000))
\* (Sales / Spend).fillna(0).round(1)
roas_of(spend, sales) == fillna0(fdiv(sales, spend, 10))

AggregateRaises(d) ==
    LET ix == col_idx(SubSeq(d.columns, 1, Len(d.columns) - 1)) IN
    \E k \in {"term", "camp", "adg"} : ix[k] = 0

KeyOf(row, ix, nm) == <<row[ix.term], row[ix.camp], row[ix.adg], row[nm]>>

\* the rows groupby keeps: dropna=True drops a row with NaN in any key
GroupedRows(d, ix, nm) ==
    {r \in 1..Len(d.rows) : \A j \in 1..4 : ~isna(KeyOf(d.rows[r], ix, nm)[j])}

AggregateFrame(d) ==
    LET ix == col_idx(SubSeq(d.columns, 1, Len(d.columns) - 1))
        nm == Len(d.columns)
        kept == GroupedRows(d, ix, nm)
        keys == SortedKeys({KeyOf(d.rows[r], ix, nm) : r \in kept})
        members(k) == {r \in kept : KeyOf(d.rows[r], ix, nm) = k}
        total(k, c) == SumOver([r \in 1..Len(d.rows) |-> d.rows[r][c].val], members(k))
    IN [i \in 1..Len(keys) |->
          LET k == keys[i]
              spend == total(k, ix.spend)
              sales == total(k, ix.sales)
          IN [ index |-> i - 1,
               SearchTerm |-> k[1], Campaign |-> k[2], AdGroup |-> k[3],
               norm_match |-> k[4],
               Spend |-> spend, Sales |-> sales,
               Orders |-> total(k, ix.orders), Clicks |-> total(k, ix.clicks),
               ACOS |-> acos_of(spend, sales), ROAS |-> roas_of(spend, sales) ]]

----------------------------------------------------------------------------
\* Lines 112-139: the views

TopK == 10

\* rows ordered by decreasing vals (vals[i] the value of rows[i]), equal
\* values in their original order, cut to the first k
LargestBy(rows, vals, k) ==
    LET n == Len(rows)
        rank(i) == Cardinality({j \in 1..n :
                       vals[j] > vals[i] \/ (vals[j] = vals[i] /\ j < i)})
    IN [p \in 1..Min(k, n) |-> rows[CHOOSE i \in 1..n : rank(i) = p - 1]]

SmallestBy(rows, vals, k) ==
    LET n == Len(rows)
        rank(i) == Cardinality({j \in 1..n :
                       vals[j] < vals[i] \/ (vals[j] = vals[i] /\ j < i)})
    IN [p \in 1..Min(k, n) |-> rows[CHOOSE i \in 1..n : rank(i) = p - 1]]

MatchTabs == <<EXACT, PHRASE, BROAD>>

TopColumns(r) ==
    [index |-> r.index, SearchTerm |-> r.SearchTerm, Sales |-> r.Sales,
     ACOS |-> r.ACOS, Orders |-> r.Orders]

TopGrossing_head(agg, mt) ==
    LET IsMt(r) == r.norm_match = mt
        rows == SelectSeq(agg, IsMt)
        top == SubSeq(rows, 1, Min(TopK, Len(rows)))
    IN [i \in 1..Len(top) |-> TopColumns(top[i])]

\* mt_df.nlargest(10, 'Sales')[[...]]
TopGrossing(agg, mt) ==
    LET IsMt(r) == r.norm_match = mt
        rows == SelectSeq(agg, IsMt)
        top == LargestBy(rows, [i \in 1..Len(rows) |-> rows[i].Sales], TopK)
    IN [i \in 1..Len(top) |-> TopColumns(top[i])]

\* ACOS <= acos_limit, ACOS a float in percent
AcosWithin(a, limit) == a.kind = "num" /\ a.val <= limit * 10

\* mt_df[(Sales > 0) & (ACOS <= acos_limit)].nsmallest(10, 'ACOS')[[...]]
AcosFriendly(agg, mt, limit) ==
    LET Ok(r) == r.norm_match = mt /\ r.Sales > 0 /\ AcosWithin(r.ACOS, limit)
        rows == SelectSeq(agg, Ok)
        top == SmallestBy(rows, [i \in 1..Len(rows) |-> rows[i].ACOS.val], TopK)
    IN [i \in 1..Len(top) |-> TopColumns(top[i])]

ngram_data_once_per_row(agg, n) ==
    Concat([i \in 1..Len(agg) |->
              LET all == generate_ngrams(agg[i].SearchTerm, n)
                  grams == SortedStrs({all[j] : j \in 1..Len(all)})
              IN [j \in 1..Len(grams) |->
                    [NGram |-> grams[j], Spend |-> agg[i].Spend,
                     Sales |-> agg[i].Sales, Orders |-> agg[i].Orders]]])

\* the (gram, metrics) pairs appended to ngram_data, in order
ngram_data(agg, n) ==
    Concat([i \in 1..Len(agg) |->
              LET grams == generate_ngrams(agg[i].SearchTerm, n) IN
              [j \in 1..Len(grams) |->
                  [NGram |-> grams[j], Spend |-> agg[i].Spend,
                   Sales |-> agg[i].Sales, Orders |-> agg[i].Orders]]])

\* pd.DataFrame(ngram_data).groupby('N-Gram', as_index=False).sum() and ACOS
ngram_frame(data) ==
    LET grams == SortedStrs({data[i].NGram : i \in 1..Len(data)})
        members(g) == {i \in 1..Len(data) : data[i].NGram = g}
    IN [p \in 1..Len(grams) |->
          LET g == grams[p]
              spend == SumOver([i \in 1..Len(data) |-> data[i].Spend], members(g))
              sales == SumOver([i \in 1..Len(data) |-> data[i].Sales], members(g))
          IN [ NGram |-> g, Spend |-> spend, Sales |-> sales,
               Orders |-> SumOver([i \in 1..Len(data) |-> data[i].Orders], members(g)),
               ACOS |-> acos_of(spend, sales) ]]

WasteColumns(r) ==
    [index |-> r.index, SearchTerm |-> r.SearchTerm, Campaign |-> r.Campaign,
     AdGroup |-> r.AdGroup, Spend |-> r.Spend, Clicks |-> r.Clicks]

WastedSpend_strict(agg, threshold) ==
    LET Wasted(r) == r.Orders = 0 /\ r.Spend > threshold
        hit == SelectSeq(agg, Wasted)
        sorted == LargestBy(hit, [i \in 1..Len(hit) |-> hit[i].Spend], Len(hit))
    IN [i \in 1..Len(sorted) |-> WasteColumns(sorted[i])]

\* df_agg[(Orders == 0) & (Spend >= waste_threshold)].sort_values('Spend', desc)
WastedSpend(agg, threshold) ==
    LET Wasted(r) == r.Orders = 0 /\ r.Spend >= threshold
        hit == SelectSeq(agg, Wasted)
        sorted == LargestBy(hit, [i \in 1..Len(hit) |-> hit[i].Spend], Len(hit))
    IN [i \in 1..Len(sorted) |-> WasteColumns(sorted[i])]

----------------------------------------------------------------------------
\* The reports a run is given

MainHeader ==
    << <<"C","u","s","t","o","m","e","r"," ","S","e","a","r","c","h"," ","T","e","r","m">>, <<"C","a","m","p","a","i","g","n"," ","N","a","m","e">>, <<"A","d"," ","G","r","o","u","p"," ","N","a","m","e">>, <<"M","a","t","c","h"," ","T","y","p","e">>,
       <<"S","p","e","n","d">>, <<"7"," ","D","a","y"," ","T","o","t","a","l"," ","S","a","l","e","s">>, <<"7"," ","D","a","y"," ","T","o","t","a","l"," ","O","r","d","e","r","s">>, <<" ","C","l","i","c","k","s"," ">> >>
\* labels that only the fallback names resolve
AltHeader ==
    << <<" ","S","e","a","r","c","h"," ","T","e","r","m">>, <<"C","a","m","p","a","i","g","n">>, <<"A","d"," ","G","r","o","u","p"," ">>, <<"M","a","t","c","h"," ","T","y","p","e">>,
       <<"S","p","e","n","d">>, <<"S","a","l","e","s">>, <<"O","r","d","e","r","s">>, <<"C","l","i","c","k","s">> >>
OtherLabel == <<"C","o","s","t">>

Terms == { <<"r","e","d"," ","r","e","d"," ","s","h","o","e">>, <<"R","e","d"," "," ","s","h","o","e">> }
Camp1 == <<"c","1">>
Adg1 == <<"g","1">>

KeyRows ==
    { <<t, c, g, m, Num(50), Num(100), Num(1), Num(2)>> :
        t \in Terms, c \in {Camp1, NaN}, g \in {Adg1, NaN},
        m \in {NaN, <<"E","x","a","c","t">>} }

MetricRows ==
    { <<t, Camp1, Adg1, <<"e","x","a","c","t"," ","p","h","r","a","s","e">>, sp, Num(100 * o), Num(o), Text(<<"3">>)>> :
        t \in Terms, sp \in {Text(<<"n","/","a">>), Num(49), Num(50)}, o \in {0, 1} }

SmallReports(RowSet) ==
    { [readable |-> TRUE, columns |-> MainHeader, rows |-> rs] :
        rs \in SeqsOf(RowSet, 0, MaxRows) }

AltReports ==
    { [readable |-> TRUE, columns |-> AltHeader, rows |-> <<r>>] : r \in MetricRows }

SampleRow == << <<"r","e","d"," ","s","h","o","e">>, Camp1, Adg1, <<"b","r","o","a","d">>, Num(60), Num(0), Num(0), Num(4) >>

\* one column carries a label no pattern and no fallback name resolves
BrokenReports ==
    { [readable |-> TRUE, columns |-> [MainHeader EXCEPT ![i] = OtherLabel],
       rows |-> <<SampleRow>>] : i \in 1..Len(MainHeader) }

Unreadable == [readable |-> FALSE, columns |-> <<>>, rows |-> <<>>]

\* reports with more than TopK keys of one match type: row i of n rows
CampN(i) == <<"c", Digits[(i \div 10) + 1], Digits[(i % 10) + 1]>>
TopRow(i, a, b, z, c, m) ==
    LET o == ((a * i + b) % 4) + z IN
    << <<"s","h","o","e">>, CampN(i), Adg1,
       IF m > 0 /\ i % m = 0 THEN <<"P","h","r","a","s","e">> ELSE <<"e","x","a","c","t">>,
       Num(10 * ((c * i) % 5)), Num(100 * o), Num(o), Num(i) >>
TopReports ==
    { [readable |-> TRUE, columns |-> MainHeader,
       rows |-> [i \in 1..n |-> TopRow(i, a, b, z, c, m)]] :
        n \in (TopK + 1)..(TopK + ExtraRows),
        a \in {1, 3}, b \in {0, 1}, z \in {0, 1}, c \in {1, 2}, m \in {0, 7} }

Reports ==
    SmallReports(KeyRows) \cup SmallReports(MetricRows) \cup AltReports
        \cup BrokenReports \cup {Unreadable} \cup TopReports

\* st.slider(..., 5, 50, 20, 5) and st.number_input(..., 50, 5000, 200)
AcosLimits == {20, 50}
WasteThresholds == {50, 100}

----------------------------------------------------------------------------
\* One run of main()

NoFrame == [columns |-> <<>>, rows |-> <<>>]
NoViews == <<<<>>, <<>>, <<>>>>

InitMain ==
    /\ pc = "start"
    /\ report \in Reports
    /\ df = NoFrame
    /\ acos_limit = 0
    /\ waste_threshold = 0
    /\ df_agg = <<>>
    /\ top_sales = NoViews
    /\ top_acos = NoViews
    /\ n_val = 0
    /\ ng_df = <<>>
    /\ waste = <<>>
    /\ shown = FALSE
    /\ error = FALSE

IdleMain ==
    /\ pc = "start"
    /\ report = Unreadable
    /\ df = NoFrame
    /\ acos_limit = 0
    /\ waste_threshold = 0
    /\ df_agg = <<>>
    /\ top_sales = NoViews
    /\ top_acos = NoViews
    /\ n_val = 0
    /\ ng_df = <<>>
    /\ waste = <<>>
    /\ shown = FALSE
    /\ error = FALSE

IdleNgrams ==
    /\ ng_text = <<>>
    /\ ng_n = 0
    /\ ng_out = <<>>
    /\ ng_called = FALSE

IdleCells ==
    /\ mt_cell = NaN
    /\ mt_out = <<>>
    /\ mt_called = FALSE
    /\ num_cell = FNaN
    /\ num_out = FNaN
    /\ num_called = FALSE

\* lines 54-60: read the file, strip the labels; a read error leaves df None
Upload ==
    /\ pc = "start"
    /\ IF report.readable
       THEN /\ df' = [columns |-> [i \in 1..Len(report.columns) |-> strip(report.columns[i])],
                      rows |-> report.rows]
            /\ pc' = "sidebar"
            /\ error' = FALSE
       ELSE /\ df' = NoFrame
            /\ pc' = "welcome"
            /\ error' = TRUE
    /\ UNCHANGED <<report, acos_limit, waste_threshold, df_agg, top_sales,
                   top_acos, n_val, ng_df, waste, shown, ngVars, cellVars>>

\* lines 62-65: the two thresholds
Sidebar ==
    /\ pc = "sidebar"
    /\ \E a \in AcosLimits, w \in WasteThresholds :
          /\ acos_limit' = a
          /\ waste_threshold' = w
    /\ pc' = "normalize"
    /\ UNCHANGED <<report, df, df_agg, top_sales, top_acos, n_val, ng_df,
                   waste, shown, error, ngVars, cellVars>>

\* lines 70-83; a KeyError goes to the except of line 144
Normalize ==
    /\ pc = "normalize"
    /\ IF NormalizeRaises(df)
       THEN /\ pc' = "failed"
            /\ error' = TRUE
            /\ df' = df
       ELSE /\ pc' = "aggregate"
            /\ error' = FALSE
            /\ df' = NormalizeFrame(df)
    /\ UNCHANGED <<report, acos_limit, waste_threshold, df_agg, top_sales,
                   top_acos, n_val, ng_df, waste, shown, ngVars, cellVars>>

\* lines 86-94
Aggregate ==
    /\ pc = "aggregate"
    /\ IF AggregateRaises(df)
       THEN /\ pc' = "failed"
            /\ error' = TRUE
            /\ df_agg' = df_agg
       ELSE /\ pc' = "tabs"
            /\ error' = FALSE
            /\ df_agg' = AggregateFrame(df)
    /\ UNCHANGED <<report, df, acos_limit, waste_threshold, top_sales,
                   top_acos, n_val, ng_df, waste, shown, ngVars, cellVars>>

\* lines 97-142: the four tabs and the export
Render ==
    /\ pc = "tabs"
    /\ \E n \in GramSizes :
          /\ n_val' = n
          /\ ng_df' = ngram_frame(ngram_data(df_agg, n))
    /\ top_sales' = [t \in 1..3 |-> TopGrossing(df_agg, MatchTabs[t])]
    /\ top_acos' = [t \in 1..3 |-> AcosFriendly(df_agg, MatchTabs[t], acos_limit)]
    /\ waste' = WastedSpend(df_agg, waste_threshold)
    /\ shown' = TRUE
    /\ pc' = "done"
    /\ UNCHANGED <<report, df, acos_limit, waste_threshold, df_agg, error,
                   ngVars, cellVars>>

Init == InitMain /\ IdleNgrams /\ IdleCells
Next == Upload \/ Sidebar \/ Normalize \/ Aggregate \/ Render
Spec == Init /\ [][Next]_vars

InitNgrams ==
    /\ ng_text \in Texts
    /\ ng_n = 0
    /\ ng_out = <<>>
    /\ ng_called = FALSE
    /\ IdleMain /\ IdleCells
NextNgrams == CallGenerateNgrams
SpecNgrams == InitNgrams /\ [][NextNgrams]_vars

InitCells ==
    /\ mt_cell \in MatchCells
    /\ mt_out = <<>>
    /\ mt_called = FALSE
    /\ num_cell \in MetricCells
    /\ num_out = FNaN
    /\ num_called = FALSE
    /\ IdleMain /\ IdleNgrams
NextCells == CallNormalizeMatchType \/ CallCoerce
SpecCells == InitCells /\ [][NextCells]_vars

----------------------------------------------------------------------------
\* Properties

\* the tokens of a text, read off the positions where a run of
\* non-whitespace characters starts and ends
TokenStarts(s) ==
    {p \in 1..Len(s) : ~IsSpace(s[p]) /\ (p = 1 \/ IsSpace(s[p - 1]))}
TokenEnds(s) ==
    {p \in 1..Len(s) : ~IsSpace(s[p]) /\ (p = Len(s) \/ IsSpace(s[p + 1]))}
TokenCount(s) == Cardinality(TokenStarts(s))
NthOf(S, j) == CHOOSE p \in S : Cardinality({q \in S : q < p}) = j - 1
Token(s, j) == SubSeq(s, NthOf(TokenStarts(s), j), NthOf(TokenEnds(s), j))
LowerToken(s, j) == [i \in 1..Len(Token(s, j)) |-> LowerChar(Token(s, j)[i])]

\* lowercased tokens [i, i+n) joined by single spaces
RECURSIVE WindowOf(_, _, _)
WindowOf(s, i, n) ==
    IF n = 1 THEN LowerToken(s, i)
    ELSE LowerToken(s, i) \o <<" ">> \o WindowOf(s, i + 1, n - 1)

WindowCount(s, n) == Max(0, TokenCount(s) - n + 1)

\* C3: generate_ngrams(text, n) returns exactly max(0, k-n+1) windows in
\* order, window i being the lowercased tokens [i, i+n) joined by single
\* spaces, and nothing when the text has fewer than n tokens.
C3_Windows ==
    ng_called =>
        /\ Len(ng_out) = WindowCount(ng_text, ng_n)
        /\ \A i \in 1..Len(ng_out) : ng_out[i] = WindowOf(ng_text, i, ng_n)
        /\ (TokenCount(ng_text) < ng_n => ng_out = <<>>)

C3_Witness ==
    /\ ng_called
    /\ ng_n = 2
    /\ Len(ng_out) = 2
    /\ \E p \in 1..Len(ng_text) : ng_text[p] = "B"
    /\ \E p \in 1..(Len(ng_text) - 1) : IsSpace(ng_text[p]) /\ IsSpace(ng_text[p + 1])

\* case-insensitive containment, letter by letter
HasWord(cell, word) ==
    \E p \in 1..(Len(cell) - Len(word) + 1) :
        \A i \in 1..Len(word) : LowerChar(cell[p + i - 1]) = LowerChar(word[i])

Vocabulary == {EXACT, PHRASE, BROAD, AUTO_OTHER, UNKNOWN}

\* C6: normalize_match_type gives one value of the vocabulary: UNKNOWN for
\* a missing cell, otherwise the first of EXACT, PHRASE, BROAD that the text
\* contains case-insensitively, AUTO_OTHER when it contains none.
C6_MatchType ==
    mt_called =>
        /\ mt_out \in Vocabulary
        /\ (isna(mt_cell) => mt_out = UNKNOWN)
        /\ (~isna(mt_cell) =>
              mt_out = IF HasWord(mt_cell, EXACT) THEN EXACT
                       ELSE IF HasWord(mt_cell, PHRASE) THEN PHRASE
                       ELSE IF HasWord(mt_cell, BROAD) THEN BROAD
                       ELSE AUTO_OTHER)

C6_Witness ==
    /\ mt_called
    /\ ~isna(mt_cell)
    /\ HasWord(mt_cell, EXACT) /\ HasWord(mt_cell, PHRASE)
    /\ ~Contains(EXACT, mt_cell)
    /\ mt_out = EXACT

\* C9: normalizing an already-canonical value changes nothing: for every
\* canonical match type v, normalize_match_type(v) = v, and coercing an
\* already-numeric metric value gives the same value.
C9_Idempotent ==
    /\ (mt_called /\ mt_cell \in Vocabulary => mt_out = mt_cell)
    /\ (num_called /\ num_cell.kind = "num" => num_out = num_cell)

Aggregated == pc \in {"tabs", "done"}

\* the column of the normalized frame that holds a canonical field
FieldCol(k) == col_idx(SubSeq(df.columns, 1, Len(df.columns) - 1))[k]
TermsOf(d) == {d.rows[r][FieldCol("term")] : r \in 1..Len(d.rows)} \ {NaN}
InputSum(t, k) ==
    SumOver([r \in 1..Len(df.rows) |-> df.rows[r][FieldCol(k)].val],
            {r \in 1..Len(df.rows) : df.rows[r][FieldCol("term")] = t})
AggSum(t, f) ==
    SumOver([i \in 1..Len(df_agg) |-> df_agg[i][f]],
            {i \in 1..Len(df_agg) : df_agg[i].SearchTerm = t})

\* C1: conservation: for every term, the aggregated rows of that term sum
\* to the input rows of that term, for spend, sales, orders and clicks; no
\* input row is dropped, none is counted twice.
C1_Conservation ==
    Aggregated =>
        \A t \in TermsOf(df) :
            /\ AggSum(t, "Spend") = InputSum(t, "spend")
            /\ AggSum(t, "Sales") = InputSum(t, "sales")
            /\ AggSum(t, "Orders") = InputSum(t, "orders")
            /\ AggSum(t, "Clicks") = InputSum(t, "clicks")

\* C2: ACOS is exactly 0 whenever summed sales is 0 and ROAS is exactly 0
\* whenever summed spend is 0, in every aggregated row and every n-gram
\* row, whatever the numerator; never NaN, never infinite.
C2_ZeroDenominator ==
    /\ Aggregated =>
         \A i \in 1..Len(df_agg) :
            /\ df_agg[i].Sales = 0 => df_agg[i].ACOS = Num(0)
            /\ df_agg[i].Spend = 0 => df_agg[i].ROAS = Num(0)
    /\ pc = "done" =>
         \A p \in 1..Len(ng_df) : ng_df[p].Sales = 0 => ng_df[p].ACOS = Num(0)

\* the (row, window position) pairs of the aggregated table whose window
\* text is g, at gram size n
Contributors(g, n) ==
    UNION { { <<i, j>> : j \in {w \in 1..WindowCount(df_agg[i].SearchTerm, n) :
                                     WindowOf(df_agg[i].SearchTerm, w, n) = g} } :
            i \in 1..Len(df_agg) }
PairSum(f, pairs) == SumOver([pr \in pairs |-> df_agg[pr[1]][f]], pairs)

\* C4: the n-gram row of window text g sums the full spend, sales and
\* orders of every (row, window position) pair whose window text is g, a
\* row counting once per position; every emitted window text has exactly
\* one n-gram row.
C4_Rollup ==
    pc = "done" =>
        /\ \A p \in 1..Len(ng_df) :
              LET pairs == Contributors(ng_df[p].NGram, n_val) IN
              /\ pairs # {}
              /\ ng_df[p].Spend = PairSum("Spend", pairs)
              /\ ng_df[p].Sales = PairSum("Sales", pairs)
              /\ ng_df[p].Orders = PairSum("Orders", pairs)
        /\ \A i \in 1..Len(df_agg) :
              \A j \in 1..WindowCount(df_agg[i].SearchTerm, n_val) :
                 Cardinality({p \in 1..Len(ng_df) :
                     ng_df[p].NGram = WindowOf(df_agg[i].SearchTerm, j, n_val)}) = 1

C4_Witness ==
    /\ pc = "done"
    /\ n_val = 1
    /\ Len(df_agg) = 2
    /\ \E p \in 1..Len(ng_df) :
          /\ ng_df[p].NGram = <<"r","e","d">>
          /\ Cardinality(Contributors(<<"r","e","d">>, 1)) = 3
          /\ ng_df[p].Spend > df_agg[1].Spend + df_agg[2].Spend

\* C5: every n-gram row records an occurrence_count >= 1, the number of
\* (row, window) pairs that contributed to it.
C5_OccurrenceCount ==
    pc = "done" =>
        \A p \in 1..Len(ng_df) :
            /\ "occurrence_count" \in DOMAIN ng_df[p]
            /\ ng_df[p].occurrence_count >= 1
            /\ ng_df[p].occurrence_count =
                  Cardinality(Contributors(ng_df[p].NGram, n_val))

Finished == pc \in {"done", "failed"}
TermResolved ==
    col_idx([i \in 1..Len(report.columns) |-> strip(report.columns[i])]).term # 0

\* C7: only an unresolvable term column aborts a run: with the term column
\* resolved the run ends with the tables produced, whatever other column is
\* missing; without it the run ends in an error and nothing is produced.
C7_OnlyTermAborts ==
    Finished =>
        /\ TermResolved => pc = "done" /\ shown /\ ~error
        /\ ~TermResolved => pc = "failed" /\ ~shown /\ error

InWaste(i) == \E w \in 1..Len(waste) : waste[w].index = df_agg[i].index

\* C8: an aggregated row is in the wasted-spend view if and only if its
\* orders are 0 and its spend is at least the threshold.
C8_WastedSpend ==
    pc = "done" =>
        /\ \A i \in 1..Len(df_agg) :
              InWaste(i) <=> (df_agg[i].Orders = 0 /\ df_agg[i].Spend >= waste_threshold)
        /\ \A w \in 1..Len(waste) :
              /\ \E i \in 1..Len(df_agg) :
                    waste[w] = WasteColumns(df_agg[i])
              /\ \A x \in 1..Len(waste) : waste[x].index = waste[w].index => x = w

C8_Witness ==
    /\ pc = "done"
    /\ \E i, j \in 1..Len(df_agg) :
          /\ df_agg[i].Orders = 0 /\ df_agg[i].Spend = waste_threshold /\ InWaste(i)
          /\ df_agg[j].Orders = 0 /\ df_agg[j].Spend = waste_threshold - 1 /\ ~InWaste(j)

InView(view, i) == \E w \in 1..Len(view) : view[w].index = df_agg[i].index
RowsOfView(view) == {i \in 1..Len(df_agg) : InView(view, i)}
IsView(view) ==
    \A w \in 1..Len(view) :
        /\ \E i \in 1..Len(df_agg) : view[w] = TopColumns(df_agg[i])
        /\ \A x \in 1..Len(view) : view[x].index = view[w].index => x = w
Friendly(i, mt) ==
    /\ df_agg[i].norm_match = mt
    /\ df_agg[i].Sales > 0
    /\ df_agg[i].ACOS.kind = "num"
    /\ df_agg[i].ACOS.val <= 10 * acos_limit

\* C10: per match type, the top-grossing view has at most TopK rows, all of
\* that match type, and no excluded row of the type has greater sales than
\* an included one; the ratio-friendly view has at most TopK rows, each of
\* the type with sales > 0 and ACOS <= limit, and no excluded row passing
\* that filter has a smaller ACOS than an included one.
C10_TopViews ==
    pc = "done" =>
        \A t \in 1..3 :
            LET mt == MatchTabs[t]
                gross == RowsOfView(top_sales[t])
                friendly == RowsOfView(top_acos[t])
            IN /\ Len(top_sales[t]) <= TopK /\ IsView(top_sales[t])
               /\ \A i \in gross : df_agg[i].norm_match = mt
               /\ \A e \in 1..Len(df_agg) :
                     e \notin gross /\ df_agg[e].norm_match = mt =>
                        /\ Len(top_sales[t]) = TopK
                        /\ \A i \in gross : df_agg[e].Sales <= df_agg[i].Sales
               /\ Len(top_acos[t]) <= TopK /\ IsView(top_acos[t])
               /\ \A i \in friendly : Friendly(i, mt)
               /\ \A e \in 1..Len(df_agg) :
                     e \notin friendly /\ Friendly(e, mt) =>
                        /\ Len(top_acos[t]) = TopK
                        /\ \A i \in friendly : df_agg[e].ACOS.val >= df_agg[i].ACOS.val

C10_Witness ==
    /\ pc = "done"
    /\ Len(top_sales[1]) = TopK
    /\ Len(top_acos[1]) = TopK
    /\ \E e \in 1..Len(df_agg) :
          /\ ~InView(top_sales[1], e) /\ df_agg[e].norm_match = EXACT
          /\ \E i \in RowsOfView(top_sales[1]) : df_agg[i].index > df_agg[e].index
    /\ \E e \in 1..Len(df_agg) : ~InView(top_acos[1], e) /\ Friendly(e, EXACT)
    /\ \E e \in 1..Len(df_agg) :
          Friendly(e, EXACT) /\ df_agg[e].ACOS.val = 10 * acos_limit
    /\ \E e \in 1..Len(df_agg) :
          df_agg[e].norm_match = EXACT /\ df_agg[e].Sales > 0 /\ ~Friendly(e, EXACT)

====
